---- MODULE Spec2Model ----
(***************************************************************************)
(* Model of src/Walker.ts (the canonical, scoped-package-aware revision):  *)
(* the ancestor-search module resolver, the production-set traversal, the  *)
(* pruner and the fs-copy ignore predicate.                                *)
(*                                                                         *)
(* Paths are the strings Node's `path` module handles; the filesystem is   *)
(* the set of directories that exist; a package.json exists in a directory *)
(* when the directory exists and its package has a manifest.               *)
(***************************************************************************)
EXTENDS Integers, Sequences, FiniteSets, TLC

\* ------------------------------------------------------------------ bounds
\* Largest number of names in the root's `dependencies` map.
MaxDeps == 2

\* ------------------------------------------------------------- path module
NoPath == ""

\* p.lastIndexOf("/", i), 1-based; 0 when there is none
RECURSIVE LastSlashFrom(_, _)
LastSlashFrom(p, i) ==
    IF i = 0 THEN 0
    ELSE IF SubSeq(p, i, i) = "/" THEN i
    ELSE LastSlashFrom(p, i - 1)

LastSlash(p) == LastSlashFrom(p, Len(p))

\* path.dirname on a normalised absolute POSIX path
Dirname(p) ==
    LET i == LastSlash(p) IN
    IF i <= 1 THEN "/" ELSE SubSeq(p, 1, i - 1)

\* path.basename on a normalised absolute POSIX path
Basename(p) ==
    IF p = "/" THEN "" ELSE SubSeq(p, LastSlash(p) + 1, Len(p))

\* path.resolve(base, rel) for an absolute base and a relative rel
Resolve(base, rel) ==
    IF base = "/" THEN "/" \o rel ELSE base \o "/" \o rel

\* s.indexOf(prefix) === 0
StartsWith(s, prefix) ==
    /\ Len(s) >= Len(prefix)
    /\ SubSeq(s, 1, Len(prefix)) = prefix

\* p is dir or lies beneath it, as directories (not as strings)
Within(p, dir) ==
    \/ p = dir
    \/ StartsWith(p, IF dir = "/" THEN "/" ELSE dir \o "/")

\* ----------------------------------------------------------- the install
rootModule == "/app"

Names == {"a", "b", "@s/c"}

\* Where a copy of a package may be installed.
InstallDirs ==
    { "/app/node_modules/a",
      "/app/node_modules/b",
      "/app/node_modules/@s/c",
      "/app/node_modules/a/node_modules/b",
      "/node_modules/b" }

\* A stale copy of an install tree next to node_modules: always present.
StaleDirs == { "/app/node_modules_old", "/app/node_modules_old/b" }

RECURSIVE Ancestors(_)
Ancestors(p) == IF p = "/" THEN {"/"} ELSE {p} \cup Ancestors(Dirname(p))

\* The directories that exist when the copies in `dirs` are installed.
TreeOf(dirs) ==
    UNION { Ancestors(d) : d \in dirs \cup StaleDirs \cup {rootModule} }

\* Files the ignore predicate is asked about: an index.js in every directory.
IndexJs(dir) == Resolve(dir, "index.js")

NoPJ == [absent |-> TRUE]

PJ(d, o, v) == [dependencies |-> d, optionalDependencies |-> o, devDependencies |-> v]

\* Sequences of distinct names of S, at most n long (key order of a JSON map).
RECURSIVE DistinctSeqs(_, _)
DistinctSeqs(S, n) ==
    IF n = 0 THEN {<<>>}
    ELSE LET shorter == DistinctSeqs(S, n - 1) IN
         shorter \cup
         { Append(s, x) : <<s, x>> \in
             { <<s, x>> \in shorter \X S : \A k \in 1..Len(s) : s[k] # x } }

RootManifests ==
    { PJ(d, <<"@s/c">>, <<"b">>) : d \in DistinctSeqs(Names, MaxDeps) }

AManifests ==
    { NoPJ, PJ(<<>>, <<>>, <<>>), PJ(<<"b">>, <<>>, <<>>), PJ(<<>>, <<"b">>, <<>>) }

BManifests ==
    { PJ(<<>>, <<>>, <<>>), PJ(<<"a">>, <<>>, <<>>), PJ(<<"@s/c">>, <<>>, <<>>) }

CManifests ==
    { PJ(<<>>, <<>>, <<>>), PJ(<<"b">>, <<>>, <<"a">>) }

\* The package a directory holds a copy of (the key of its manifest).
PkgName(dir) ==
    LET parent == Basename(Dirname(dir)) IN
    IF parent # "" /\ SubSeq(parent, 1, 1) = "@"
    THEN parent \o "/" \o Basename(dir)
    ELSE Basename(dir)

VARIABLES
    fs,             \* the directories that exist
    pkg,            \* package name -> manifest (NoPJ: no package.json)
    thisProdPaths,  \* the Set object this.prodPaths refers to
    heap,           \* Set object -> its elements
    ops,            \* the top-level operations in flight, per caller
    resolved,       \* the last lookup of the resolver: name, from, result
    answer,         \* the last call of an ignore predicate: path, result
    orig            \* the tree as installed, and how the first traversal of it ended

vars == <<fs, pkg, thisProdPaths, heap, ops, resolved, answer, orig>>

Ops == {1, 2}
SetIds == {0} \cup Ops


\* ------------------------------------------------------- filesystem calls
\* fs.pathExists / fs.existsSync of a directory
PathExists(p, fsys) == p \in fsys

\* fs.readdir: the entries of a directory, as full paths
Readdir(dir, fsys) == { d \in fsys : d # "/" /\ Dirname(d) = dir }

\* (as if fs.emptyDir were called: the directory itself stays)
RemoveContents(path, fsys) == { d \in fsys : d = path \/ ~Within(d, path) }

\* fs.remove: the directory and everything beneath it
Remove(path, fsys) == { d \in fsys : ~Within(d, path) }

\* Whether <dir>/package.json exists
HasPackageJSON(dir, fsys, pk) ==
    /\ dir \in fsys
    /\ PkgName(dir) \in DOMAIN pk
    /\ pk[PkgName(dir)] # NoPJ

\* fs.statSync(p) does not throw: p is a directory or an index.js in one
StatOk(p, fsys) ==
    \/ p \in fsys
    \/ Basename(p) = "index.js" /\ Dirname(p) \in fsys

\* ------------------------------------------------------------ Walker.ts
relativeModule(rootPath, moduleName) ==
    Resolve(rootPath, "node_modules/" \o moduleName)

\* null when there is no package.json
loadPackageJSON(modulePath, fsys, pk) ==
    IF HasPackageJSON(modulePath, fsys, pk) THEN pk[PkgName(modulePath)] ELSE NoPJ

\* (the earlier revision of the search loop, unaware of scope directories)
AscendTwoLevels(testPath) == Dirname(Dirname(testPath))

\* One ascent of the search loop: past a scope directory if there is one,
\* then past the enclosing node_modules.
Ascend(testPath) ==
    LET t == IF Basename(Dirname(testPath)) # "node_modules"
             THEN Dirname(testPath)
             ELSE testPath
    IN Dirname(Dirname(t))

\* The while loop of loadProductionDependenciesForModuleInModule: the
\* discovered path, or NoPath when the candidate repeats.
RECURSIVE SearchUp(_, _, _, _)
SearchUp(moduleName, testPath, lastRelative, fsys) ==
    LET candidate == relativeModule(testPath, moduleName) IN
    IF candidate = lastRelative THEN NoPath
    ELSE IF PathExists(candidate, fsys) THEN candidate
    ELSE SearchUp(moduleName, Ascend(testPath), candidate, fsys)

discoveredPath(moduleName, modulePath, fsys) ==
    SearchUp(moduleName, modulePath, NoPath, fsys)

\* (as if the loop over dependencies also went over devDependencies)
DepsAndDevDepsOf(pJ) == pJ.dependencies \o pJ.devDependencies

\* The keys the two for-in loops iterate, in order
DepsOf(pJ) == pJ.dependencies

OptDepsOf(pJ) == pJ.optionalDependencies

\* allowMissing as the loop over dependencies passes it
AllowForDeps(allowMissing) == allowMissing

\* (as if the loop over optionalDependencies passed allowMissing on)
AllowForOptInherited(allowMissing) == allowMissing

\* allowMissing as the loop over optionalDependencies passes it
AllowForOpt(allowMissing) == TRUE

\* Whether a failed lookup throws
Throws(found, allowMissing) == found = NoPath /\ ~allowMissing

\* (as if only the root were remembered as traversed)
AlreadyTraversedRootOnly(modulePath, prodPaths) == modulePath = rootModule

\* "We have already traversed this module"
AlreadyTraversed(modulePath, prodPaths) == modulePath \in prodPaths

\* (the earlier revision of pruneModule, which judges every entry)
IsScopeEntryNever(t, x) == FALSE

\* pruneModule lists an '@' entry of a node_modules instead of judging it
IsScopeEntry(t, x) == t = "nm" /\ SubSeq(Basename(x), 1, 1) = "@"

\* (as if pruneModule did not recurse below the root's node_modules)
PruneListingTopOnly(modulePath, fsys) ==
    IF modulePath = rootModule
    THEN Readdir(Resolve(modulePath, "node_modules"), fsys)
    ELSE {}

\* The entries pruneModule goes on to visit under a module it keeps
PruneListing(modulePath, fsys) ==
    LET nodeModulesPath == Resolve(modulePath, "node_modules") IN
    IF PathExists(nodeModulesPath, fsys) THEN Readdir(nodeModulesPath, fsys) ELSE {}

RECURSIVE getNearestModuleDirectory(_, _, _)
getNearestModuleDirectory(tPath, fsys, pk) ==
    IF tPath \in fsys /\ HasPackageJSON(tPath, fsys, pk) THEN tPath
    ELSE IF tPath = "/" THEN NoPath       \* the loop never ends
    ELSE getNearestModuleDirectory(Dirname(tPath), fsys, pk)

nmPath == Resolve(rootModule, "node_modules")

\* The closure getFsCopyIgnoreFunction returns, over the captured set
IgnoreFn(prodPaths, tPath, fsys, pk) ==
    LET dirPath == getNearestModuleDirectory(tPath, fsys, pk) IN
    IF StartsWith(tPath, nmPath) THEN dirPath \notin prodPaths ELSE FALSE

\* --------------------------------------------------------------- state
NoErr == [name |-> "", from |-> ""]
NoLookup == [n |-> 0, name |-> "", from |-> "", found |-> "", tolerant |-> FALSE]
NoAnswer == [path |-> "", skip |-> FALSE]
NoOutcome == [pc |-> "none", set |-> {}, err |-> NoErr]

\* viaOpt records whether an optionalDependencies edge lies on the way from
\* the root to the frame's module (kept beside the allowMissing the code passes).
Frame(t, path, allow, viaOpt, deps, opt, entries) ==
    [t |-> t, path |-> path, allow |-> allow, viaOpt |-> viaOpt,
     deps |-> deps, opt |-> opt, entries |-> entries]

\* awaiting loadPackageJSON(path)
LoadFrame(path, allow, viaOpt) == Frame("load", path, allow, viaOpt, <<>>, <<>>, {})
\* inside the two for-in loops of loadProductionDependenciesForModule
LoopFrame(path, allow, viaOpt, deps, opt) ==
    Frame("loop", path, allow, viaOpt, deps, opt, {})
\* inside a for-of loop of pruneModule over the entries still to visit
ListFrame(t, path, entries) == Frame(t, path, FALSE, FALSE, <<>>, <<>>, entries)

\* visits lists the directories whose package.json was loaded, steps counts
\* the continuations of the traversal that have run, before is the tree the
\* operation started on.
IdleOp == [kind |-> "none", pc |-> "idle", stack |-> <<>>, ret |-> -1,
           err |-> NoErr, visits |-> <<>>, steps |-> 0, before |-> {}]

Running(i) == ops[i].pc \in {"loading", "pruning"}

Top(i) == ops[i].stack[Len(ops[i].stack)]
Pop(st) == SubSeq(st, 1, Len(st) - 1)

Init ==
    /\ \E dirs \in SUBSET InstallDirs :
         /\ ("/app/node_modules/a/node_modules/b" \in dirs
               => "/app/node_modules/a" \in dirs)
         /\ fs = TreeOf(dirs)
    /\ \E r \in RootManifests, a \in AManifests, b \in BManifests, c \in CManifests :
         pkg = [n \in {"app"} \cup Names |->
                  IF n = "app" THEN r ELSE IF n = "a" THEN a
                  ELSE IF n = "b" THEN b ELSE c]
    /\ thisProdPaths = 0
    /\ heap = [s \in SetIds |-> {}]
    /\ ops = [i \in Ops |-> IdleOp]
    /\ resolved = NoLookup
    /\ answer = NoAnswer
    /\ orig = [fs |-> fs, first |-> NoOutcome]

\* loadProductionDependencies / prune / getFsCopyIgnoreFunction is called:
\* a new Set replaces this.prodPaths and the root is recorded in it, up to
\* the first await (loadPackageJSON of the root).
Start(i, kind) ==
    /\ ~Running(i)
    /\ thisProdPaths' = i
    /\ heap' = [heap EXCEPT ![i] = {rootModule}]
    /\ ops' = [ops EXCEPT ![i] =
                 [kind |-> kind, pc |-> "loading",
                  stack |-> <<LoadFrame(rootModule, FALSE, FALSE)>>,
                  ret |-> -1, err |-> NoErr, visits |-> <<>>, steps |-> 0,
                  before |-> fs]]
    /\ resolved' = NoLookup
    /\ answer' = NoAnswer
    /\ UNCHANGED <<fs, pkg, orig>>

\* loadPackageJSON returns: no manifest ends the visit, a manifest starts
\* the loops over its dependencies and optionalDependencies.
LoadPJ(i) ==
    /\ ops[i].pc = "loading"
    /\ ops[i].stack # <<>>
    /\ Top(i).t = "load"
    /\ LET f == Top(i)
           pJ == loadPackageJSON(f.path, fs, pkg)
           rest == Pop(ops[i].stack)
       IN ops' = [ops EXCEPT
                    ![i].visits = Append(@, f.path),
                    ![i].steps = @ + 1,
                    ![i].stack =
                       IF pJ = NoPJ THEN rest
                       ELSE Append(rest, LoopFrame(f.path, f.allow, f.viaOpt,
                                                   DepsOf(pJ), OptDepsOf(pJ)))]
    /\ UNCHANGED <<fs, pkg, thisProdPaths, heap, resolved, answer, orig>>

\* How a traversal that throws is recorded as the first outcome on the tree.
FirstOutcome(pc, set, err) ==
    IF orig.first = NoOutcome
    THEN [orig EXCEPT !.first = [pc |-> pc, set |-> set, err |-> err]]
    ELSE orig

\* One iteration of a for-in loop: the name is searched for; a miss throws
\* or is skipped; a hit already in this.prodPaths returns at once; a new hit
\* is added to this.prodPaths and its package.json is awaited.
ResolveDep(i) ==
    /\ ops[i].pc = "loading"
    /\ ops[i].stack # <<>>
    /\ Top(i).t = "loop"
    /\ Top(i).deps # <<>> \/ Top(i).opt # <<>>
    /\ LET f == Top(i)
           inDeps == f.deps # <<>>
           name == IF inDeps THEN Head(f.deps) ELSE Head(f.opt)
           allow == IF inDeps THEN AllowForDeps(f.allow) ELSE AllowForOpt(f.allow)
           viaOpt == f.viaOpt \/ ~inDeps
           found == discoveredPath(name, f.path, fs)
           next == IF inDeps
                   THEN LoopFrame(f.path, f.allow, f.viaOpt, Tail(f.deps), f.opt)
                   ELSE LoopFrame(f.path, f.allow, f.viaOpt, f.deps, Tail(f.opt))
           rest == Append(Pop(ops[i].stack), next)
           set == heap[thisProdPaths]
           err == [name |-> name, from |-> f.path]
       IN /\ resolved' = [n |-> resolved.n + 1, name |-> name, from |-> f.path,
                          found |-> found, tolerant |-> viaOpt]
          /\ IF Throws(found, allow)
             THEN /\ ops' = [ops EXCEPT ![i].pc = "failed",
                                        ![i].steps = @ + 1,
                                        ![i].stack = <<>>,
                                        ![i].err = err]
                  /\ orig' = FirstOutcome("failed", {}, err)
                  /\ UNCHANGED heap
             ELSE IF found = NoPath \/ AlreadyTraversed(found, set)
             THEN /\ ops' = [ops EXCEPT ![i].stack = rest, ![i].steps = @ + 1]
                  /\ UNCHANGED <<heap, orig>>
             ELSE /\ ops' = [ops EXCEPT
                               ![i].steps = @ + 1,
                               ![i].stack = Append(rest, LoadFrame(found, allow, viaOpt))]
                  /\ heap' = [heap EXCEPT ![thisProdPaths] = set \cup {found}]
                  /\ UNCHANGED orig
    /\ UNCHANGED <<fs, pkg, thisProdPaths, answer>>

\* Both loops of a visit are over: loadProductionDependenciesForModule returns.
Return(i) ==
    /\ ops[i].pc = "loading"
    /\ ops[i].stack # <<>>
    /\ Top(i).t = "loop"
    /\ Top(i).deps = <<>> /\ Top(i).opt = <<>>
    /\ ops' = [ops EXCEPT ![i].stack = Pop(@), ![i].steps = @ + 1]
    /\ UNCHANGED <<fs, pkg, thisProdPaths, heap, resolved, answer, orig>>

\* The traversal of the root has returned: loadProductionDependencies
\* returns this.prodPaths, getFsCopyIgnoreFunction captures it, prune goes on
\* to pruneModule(rootModule).
FinishLoad(i) ==
    /\ ops[i].pc = "loading"
    /\ ops[i].stack = <<>>
    /\ ops' = [ops EXCEPT
                 ![i].pc = IF ops[i].kind = "prune" THEN "pruning" ELSE "done",
                 ![i].ret = thisProdPaths,
                 ![i].steps = @ + 1,
                 ![i].stack = IF ops[i].kind = "prune"
                              THEN <<ListFrame("top", rootModule, {rootModule})>>
                              ELSE <<>>]
    /\ orig' = FirstOutcome("loaded", heap[thisProdPaths], NoErr)
    /\ UNCHANGED <<fs, pkg, thisProdPaths, heap, resolved, answer>>

\* pruneModule on one entry of a listing. An '@' entry of a node_modules is
\* listed in turn; any other entry is kept and its node_modules listed when
\* it is in this.prodPaths, and removed with all beneath it when it is not.
PruneEntry(i) ==
    /\ ops[i].pc = "pruning"
    /\ ops[i].stack # <<>>
    /\ Top(i).entries # {}
    /\ \E x \in Top(i).entries :
         LET f == Top(i)
             rest == Append(Pop(ops[i].stack),
                            ListFrame(f.t, f.path, f.entries \ {x}))
         IN IF IsScopeEntry(f.t, x)
            THEN /\ ops' = [ops EXCEPT ![i].stack =
                              Append(rest, ListFrame("scope", x, Readdir(x, fs)))]
                 /\ UNCHANGED fs
            ELSE IF x \in heap[thisProdPaths]
            THEN /\ ops' = [ops EXCEPT ![i].stack =
                              IF PathExists(Resolve(x, "node_modules"), fs)
                              THEN Append(rest, ListFrame("nm", Resolve(x, "node_modules"),
                                                          PruneListing(x, fs)))
                              ELSE rest]
                 /\ UNCHANGED fs
            ELSE /\ ops' = [ops EXCEPT ![i].stack = rest]
                 /\ fs' = Remove(x, fs)
    /\ UNCHANGED <<pkg, thisProdPaths, heap, resolved, answer, orig>>

\* A for-of loop of pruneModule has no entry left.
EndList(i) ==
    /\ ops[i].pc = "pruning"
    /\ ops[i].stack # <<>>
    /\ Top(i).entries = {}
    /\ ops' = [ops EXCEPT ![i].stack = Pop(@)]
    /\ UNCHANGED <<fs, pkg, thisProdPaths, heap, resolved, answer, orig>>

\* pruneModule(rootModule) has returned: prune resolves.
FinishPrune(i) ==
    /\ ops[i].pc = "pruning"
    /\ ops[i].stack = <<>>
    /\ ops' = [ops EXCEPT ![i].pc = "done"]
    /\ UNCHANGED <<fs, pkg, thisProdPaths, heap, resolved, answer, orig>>

\* The process dies in the middle of a prune; what was removed stays removed.
Crash(i) ==
    /\ ops[i].pc = "pruning"
    /\ ops' = [ops EXCEPT ![i].pc = "crashed", ![i].stack = <<>>]
    /\ UNCHANGED <<fs, pkg, thisProdPaths, heap, resolved, answer, orig>>

\* What a copy routine may hand to the ignore predicate.
Probes ==
    { IndexJs(d) : d \in InstallDirs \cup {rootModule, "/app/node_modules_old/b"} }
    \cup { nmPath, "/app/node_modules_old", "/app/node_modules/@s" }

\* The predicate of a finished getFsCopyIgnoreFunction is called on a path
\* that exists and has a package.json at or above it.
Query(i) ==
    /\ ops[i].pc = "done"
    /\ ops[i].kind = "ignore"
    /\ \E p \in Probes :
         /\ StatOk(p, fs)
         /\ getNearestModuleDirectory(p, fs, pkg) # NoPath
         /\ answer' = [path |-> p, skip |-> IgnoreFn(heap[ops[i].ret], p, fs, pkg)]
    /\ UNCHANGED <<fs, pkg, thisProdPaths, heap, ops, resolved, orig>>

Step(i) ==
    \/ LoadPJ(i)
    \/ ResolveDep(i)
    \/ Return(i)
    \/ FinishLoad(i)
    \/ PruneEntry(i)
    \/ EndList(i)
    \/ FinishPrune(i)

Kinds == {"load", "prune", "ignore"}

\* One caller, one top-level operation at a time.
Next ==
    \/ \E k \in Kinds : Start(1, k)
    \/ Step(1)
    \/ Crash(1)
    \/ Query(1)

Spec == Init /\ [][Next]_vars

\* Two callers on the same Walker, each starting one operation; their
\* continuations interleave at the awaits.
ConcInit ==
    /\ Init
    /\ fs = TreeOf(InstallDirs \ {"/node_modules/b"})
    /\ pkg["app"] = PJ(<<"a", "b">>, <<"@s/c">>, <<"b">>)
    /\ pkg["b"] = PJ(<<>>, <<>>, <<>>)
    /\ pkg["@s/c"] = PJ(<<>>, <<>>, <<>>)

\* A continuation that needs no I/O to go on (a loop that is over, a call
\* that has returned) runs in the same turn of the event loop as the step
\* before it: nothing of another operation runs in between.
Draining(j) ==
    /\ Running(j)
    /\ \/ ops[j].stack = <<>>
       \/ /\ Top(j).t = "loop"
          /\ Top(j).deps = <<>>
          /\ Top(j).opt = <<>>
       \/ /\ Top(j).t \in {"top", "nm", "scope"}
          /\ Top(j).entries = {}

Quiet(i) == \A j \in Ops \ {i} : ~Draining(j)

ConcNext ==
    \E i \in Ops :
        \/ \E k \in Kinds : Quiet(i) /\ ops[i].pc = "idle" /\ Start(i, k)
        \/ Quiet(i) /\ LoadPJ(i)
        \/ Quiet(i) /\ ResolveDep(i)
        \/ Quiet(i) /\ Return(i)
        \/ Quiet(i) /\ FinishLoad(i)
        \/ Quiet(i) /\ PruneEntry(i)
        \/ Quiet(i) /\ EndList(i)
        \/ Quiet(i) /\ FinishPrune(i)

ConcSpec == ConcInit /\ [][ConcNext]_vars


\* ---------------------------------------------------------- reference
Range(q) == { q[k] : k \in 1..Len(q) }

\* The modules a manifest's dependencies and optionalDependencies resolve to
EdgesOf(m, fsys, pk) ==
    IF ~HasPackageJSON(m, fsys, pk) THEN {}
    ELSE LET pJ == pk[PkgName(m)] IN
         { discoveredPath(n, m, fsys) :
             n \in Range(pJ.dependencies) \cup Range(pJ.optionalDependencies) }
         \ {NoPath}

RECURSIVE ReachFrom(_, _, _)
ReachFrom(S, fsys, pk) ==
    LET T == S \cup UNION { EdgesOf(m, fsys, pk) : m \in S } IN
    IF T = S THEN S ELSE ReachFrom(T, fsys, pk)

\* The root and all it reaches over dependencies and optionalDependencies
ProdClosure(fsys, pk) == ReachFrom({rootModule}, fsys, pk)

\* The modules dependencies edges alone lead to
RECURSIVE RequiredFrom(_, _, _)
RequiredFrom(S, fsys, pk) ==
    LET T == S \cup UNION { { discoveredPath(n, m, fsys) :
                                n \in Range(pk[PkgName(m)].dependencies) } \ {NoPath} :
                            m \in { x \in S : HasPackageJSON(x, fsys, pk) } } IN
    IF T = S THEN S ELSE RequiredFrom(T, fsys, pk)

\* The required dependencies that are installed nowhere the search looks
RequiredMissing(fsys, pk) ==
    { e \in RequiredFrom({rootModule}, fsys, pk) \X Names :
        /\ HasPackageJSON(e[1], fsys, pk)
        /\ e[2] \in Range(pk[PkgName(e[1])].dependencies)
        /\ discoveredPath(e[2], e[1], fsys) = NoPath }

\* <dir>/node_modules/<name>, written out
InstalledAt(dir, name) ==
    (IF dir = "/" THEN "" ELSE dir) \o "/node_modules/" \o name

\* The package directory a copy is installed in: X for X/node_modules/p and
\* for X/node_modules/@s/p; the filesystem root for what is installed in none.
EnclosingPackage(dir) ==
    LET xs == { X \in Ancestors(dir) : \E n \in Names : InstalledAt(X, n) = dir } IN
    IF xs = {} THEN "/" ELSE CHOOSE X \in xs : TRUE

RECURSIVE NearestInstall(_, _, _)
NearestInstall(name, dir, fsys) ==
    IF InstalledAt(dir, name) \in fsys THEN InstalledAt(dir, name)
    ELSE IF dir = "/" THEN NoPath
    ELSE NearestInstall(name, EnclosingPackage(dir), fsys)

\* The directories pruneModule is to judge: the entries of a node_modules
\* other than '@' entries, and the children of its '@' entries.
IsCandidate(d) ==
    LET parent == Dirname(d) IN
    \/ /\ Basename(parent) = "node_modules"
       /\ SubSeq(Basename(d), 1, 1) # "@"
    \/ /\ SubSeq(Basename(parent), 1, 1) = "@"
       /\ Basename(Dirname(parent)) = "node_modules"

Candidates(fsys) == { d \in fsys : d # nmPath /\ Within(d, nmPath) /\ IsCandidate(d) }

\* What is left of a tree when every candidate outside `set` is removed
Kept(fsys, set) ==
    { d \in fsys : \A c \in Candidates(fsys) : Within(d, c) => c \in set }

\* How many names the manifests of the directories in S list to follow
RECURSIVE EdgeCount(_, _, _)
EdgeCount(S, fsys, pk) ==
    IF S = {} THEN 0
    ELSE LET m == CHOOSE x \in S : TRUE IN
         (IF HasPackageJSON(m, fsys, pk)
          THEN Len(pk[PkgName(m)].dependencies) + Len(pk[PkgName(m)].optionalDependencies)
          ELSE 0)
         + EdgeCount(S \ {m}, fsys, pk)

NoDuplicates(q) == \A j, k \in 1..Len(q) : j # k => q[j] # q[k]

Succeeded(i) == ops[i].ret # -1
PruneDone(i) == ops[i].kind = "prune" /\ ops[i].pc = "done"
\* loadProductionDependencies has just returned and nothing has run since
JustLoaded(i) ==
    /\ Succeeded(i)
    /\ \/ ops[i].pc = "done" /\ ops[i].kind # "prune"
       \/ ops[i].pc = "pruning" /\ ops[i].stack = <<ListFrame("top", rootModule, {rootModule})>>
ReturnedSet(i) == heap[ops[i].ret]

\* ------------------------------------------------------------- claims

\* C1: when loadProductionDependencies succeeds, the set is exactly the root
\* and everything reachable from it by resolving the names under
\* dependencies and optionalDependencies; a name is only ever looked up from
\* a module that lists it under one of those two keys (never for being
\* listed under devDependencies).
C1_ProductionSetIsClosure ==
    /\ JustLoaded(1) =>
         /\ rootModule \in ReturnedSet(1)
         /\ ReturnedSet(1) = ProdClosure(fs, pkg)
    /\ (ops[1].pc = "loading" /\ resolved.n > 0) =>
         /\ HasPackageJSON(resolved.from, fs, pkg)
         /\ resolved.name \in
              Range(pkg[PkgName(resolved.from)].dependencies)
              \cup Range(pkg[PkgName(resolved.from)].optionalDependencies)

\* C1 witness: a successful load whose set reaches beyond the root's direct
\* dependencies while b, listed by the root under devDependencies only, is
\* installed and left out.
C1_Witness ==
    /\ JustLoaded(1)
    /\ Cardinality(ReturnedSet(1)) >= 3
    /\ "b" \notin Range(pkg["app"].dependencies)
    /\ "/app/node_modules/b" \in fs
    /\ "/app/node_modules/b" \notin ReturnedSet(1)

\* C2: after a successful prune, every candidate module directory of the
\* root's node_modules tree that still exists is in the production set, and
\* every one that existed before and is not in the set is gone.
C2_OnlyProductionRemains ==
    PruneDone(1) =>
        /\ \A d \in Candidates(fs) : d \in ReturnedSet(1)
        /\ \A d \in Candidates(ops[1].before) : d \notin ReturnedSet(1) => d \notin fs

\* C2 witness: a prune has completed having removed a nested and a top-level
\* non-production directory while keeping a production one.
C2_Witness ==
    /\ PruneDone(1)
    /\ "/app/node_modules/a/node_modules/b" \in ops[1].before
    /\ "/app/node_modules/a/node_modules/b" \notin fs
    /\ "/app/node_modules/a" \in fs
    /\ \E d \in Candidates(ops[1].before) : Dirname(d) = nmPath /\ d \notin fs

\* C3: after a successful prune every member of the production set that
\* existed before still exists, the root included; and every candidate
\* module directory that encloses a member is itself a member.
C3_ProductionSurvives ==
    /\ PruneDone(1) =>
         /\ rootModule \in fs
         /\ \A m \in ReturnedSet(1) : m \in ops[1].before => m \in fs
    /\ JustLoaded(1) =>
         \A m \in ReturnedSet(1) : \A c \in Candidates(fs) :
             Within(m, c) => c \in ReturnedSet(1)

\* C3 witness: a prune has completed that removed something and kept a
\* scoped member and a member nested under another member.
C3_Witness ==
    /\ PruneDone(1)
    /\ fs # ops[1].before
    /\ "/app/node_modules/@s/c" \in ReturnedSet(1) \cap fs
    /\ "/app/node_modules/a/node_modules/b" \in ReturnedSet(1) \cap fs

\* C4: if a module reachable from the root over dependencies edges alone
\* lists under dependencies a name that is installed nowhere the search
\* looks, the load fails with the error naming such a dependency and the
\* directory it was resolved from, and no set is returned.
C4_RequiredMissingFails ==
    (ops[1].pc \in {"done", "failed", "pruning", "crashed"}
       /\ RequiredMissing(ops[1].before, pkg) # {}) =>
        /\ ops[1].pc = "failed"
        /\ ~Succeeded(1)
        /\ <<ops[1].err.from, ops[1].err.name>> \in RequiredMissing(ops[1].before, pkg)

\* C5: a name that cannot be resolved raises no error when it is listed
\* under optionalDependencies, or under dependencies of a module visited
\* below an optionalDependencies edge: nothing is added to the set and the
\* traversal goes on with the names that remain.
C5_OptionalBranchTolerant ==
    [][ (resolved'.n # resolved.n /\ resolved'.found = NoPath /\ resolved'.tolerant) =>
          /\ ops'[1].pc = "loading"
          /\ ops'[1].err = NoErr
          /\ heap' = heap
          /\ Len(ops'[1].stack) = Len(ops[1].stack)
          /\ ops'[1].stack[Len(ops'[1].stack)].path = resolved'.from
          /\ Len(ops'[1].stack[Len(ops'[1].stack)].deps)
               + Len(ops'[1].stack[Len(ops'[1].stack)].opt)
             = Len(ops[1].stack[Len(ops[1].stack)].deps)
               + Len(ops[1].stack[Len(ops[1].stack)].opt) - 1
      ]_vars

\* C5 witness: a load has succeeded after a lookup under `dependencies`,
\* made two levels below an optionalDependencies edge, found nothing.
C5_Witness ==
    /\ JustLoaded(1)
    /\ resolved.found = NoPath
    /\ resolved.tolerant
    /\ resolved.from # rootModule
    /\ resolved.name \in Range(pkg[PkgName(resolved.from)].dependencies)

\* C6: the ignore predicate answers "do not skip" for every path that is
\* not the root's node_modules directory or beneath it, and for every path
\* whose nearest directory with a package.json is in the captured set.
C6_IgnoreOnlyInsideNodeModules ==
    (answer # NoAnswer /\ ops[1].pc = "done" /\ ops[1].kind = "ignore") =>
        /\ ~Within(answer.path, nmPath) => ~answer.skip
        /\ getNearestModuleDirectory(answer.path, fs, pkg) \in ReturnedSet(1)
             => ~answer.skip

\* C7: a load terminates on every install tree, cycles included: no module
\* directory has its package.json loaded twice in one traversal, the
\* lookups made are no more than the names the visited manifests list (each
\* module's edges are expanded once), so the continuations run are bounded
\* by the size of the tree, and a traversal under way can always take its
\* next step.
C7_TerminatesVisitingOnce ==
    /\ NoDuplicates(ops[1].visits)
    /\ ops[1].steps <= 2 * Len(ops[1].visits) + resolved.n + 1
    /\ ops[1].pc = "loading" =>
          \/ ops[1].stack = <<>>
          \/ Top(1).t \in {"load", "loop"}
    /\ (JustLoaded(1) \/ ops[1].pc = "failed") =>
          /\ Range(ops[1].visits) \subseteq ops[1].before
          /\ resolved.n <= EdgeCount(Range(ops[1].visits), ops[1].before, pkg)
          /\ ops[1].steps <= 2 * Cardinality(ops[1].before)
                               + EdgeCount(ops[1].before, ops[1].before, pkg) + 1

\* C7 witness: a load has ended on a cycle (a requires b, b requires a) with
\* both visited.
C7_Witness ==
    /\ JustLoaded(1)
    /\ pkg["a"] # NoPJ
    /\ pkg["a"].dependencies = <<"b">>
    /\ pkg["b"].dependencies = <<"a">>
    /\ {"/app/node_modules/a", "/app/node_modules/b"} \subseteq Range(ops[1].visits)

\* C8: a lookup probes <dir>/node_modules/<name> in the starting directory
\* and then in each enclosing package directory in turn (X for
\* X/node_modules/p and for X/node_modules/@s/p), ending at the filesystem
\* root; it returns the first candidate that exists, and nothing only when
\* none of them does.
C8_NearestInstallWins ==
    /\ ops[1].pc = "idle" =>
         \A d \in (InstallDirs \cap fs) \cup {rootModule} : \A n \in Names :
             discoveredPath(n, d, fs) = NearestInstall(n, d, fs)
    /\ (ops[1].pc = "loading" /\ resolved.n > 0) =>
         resolved.found = NearestInstall(resolved.name, resolved.from, fs)

\* C8 witness: a lookup made from the scoped package @s/c found b hoisted
\* to the root's node_modules.
C8_Witness ==
    /\ ops[1].pc = "loading"
    /\ resolved.from = "/app/node_modules/@s/c"
    /\ resolved.found = "/app/node_modules/b"

\* C9: with two top-level operations in flight on one Walker, a set that
\* has been returned, used by pruneModule or captured by an ignore predicate
\* is the complete production set and is not written to afterwards.
C9_ReturnedSetCompleteAndFrozen ==
    [][ \A i \in Ops :
          (Succeeded(i) /\ ops'[i].ret = ops[i].ret) =>
              /\ ReturnedSet(i) = ProdClosure(orig.fs, pkg)
              /\ heap'[ops[i].ret] = heap[ops[i].ret]
      ]_vars

\* C10: whatever an interrupted prune has already removed, a later
\* operation ends its traversal as the first traversal of the tree ended
\* (the same set, or the same error), and a prune that completes leaves
\* exactly the original tree less its non-production directories.
C10_PruneIdempotentOnRetry ==
    /\ JustLoaded(1) =>
         /\ orig.first.pc = "loaded"
         /\ ReturnedSet(1) = orig.first.set
    /\ ops[1].pc = "failed" =>
         /\ orig.first.pc = "failed"
         /\ ops[1].err = orig.first.err
    /\ PruneDone(1) => fs = Kept(orig.fs, orig.first.set)

\* C10 witness: a prune has completed on a tree that an interrupted prune
\* had already removed part of, with more left for it to remove.
C10_Witness ==
    /\ PruneDone(1)
    /\ ops[1].before # orig.fs
    /\ ops[1].before # fs

====
